---------------------------- MODULE Spec2Model ----------------------------
(***************************************************************************)
(* A model of quick_folium.py: seven helper operations that attach layers  *)
(* to a folium map.  The state is the map handle's child list, the         *)
(* caller's geo data frame (held in a small object heap so that aliasing   *)
(* and copying are visible) and a record of the last call.                 *)
(*                                                                         *)
(* Python values are written as follows.  None is the string "None" where  *)
(* the parameter is otherwise a string, the record NoneList where it is    *)
(* otherwise a list and NoneObject where it is otherwise an object.  An    *)
(* argument the code does not pass to a library constructor is recorded as *)
(* "default".  A geo data frame is a record                                *)
(* [kind, geometry, columns]; a point is [x, y]; a polygon is the sequence *)
(* of its vertices.                                                        *)
(***************************************************************************)
EXTENDS Integers, Sequences, FiniteSets, TLC

VARIABLES
    children,   \* the map handle's children, in the order they were added
    frames,     \* heap of geo data frames: caller's frame id -> frame
    last,       \* the last call: operation, arguments, outcome, return value
    ncalls      \* number of calls made so far

vars == <<children, frames, last, ncalls>>

---------------------------------------------------------------------------
\* Bounds of the model.

MaxCalls == 2
MaxPoints == 3
MaxPolys == 2
MaxRaise == 1

---------------------------------------------------------------------------
\* Python values.

NoneList == [isNone |-> TRUE, items |-> <<>>]

List(s) == [isNone |-> FALSE, items |-> s]

\* None where the parameter is otherwise a library object.
NoneObject == [type |-> "None"]

\* Python truthiness of an optional list: None and [] are both falsy.
Truthy(v) == ~v.isNone /\ Len(v.items) > 0

\* The id of the caller's frame in the heap.
CallerIds == {1}

---------------------------------------------------------------------------
\* Inputs.

Pt(px, py) == [x |-> px, y |-> py]

PointPool == {Pt(1, 1), Pt(2, 1)}

PolygonPool ==
    { <<Pt(0, 0), Pt(2, 0), Pt(2, 2), Pt(0, 2)>>,     \* rectangle (0,0)-(2,2)
      <<Pt(2, 4), Pt(6, 4), Pt(6, 6), Pt(4, 6)>> }    \* trapezium

SeqsUpTo(S, n) == UNION {[1..k -> S] : k \in 0..n}

\* The attribute column every frame of the model carries: record i holds i.
NameColumn(n) == [i \in 1..n |-> i]

Frame(kind, geoms) ==
    [kind |-> kind, geometry |-> geoms,
     columns |-> ("name" :> NameColumn(Len(geoms)))]

PointFrames == {Frame("Point", g) : g \in SeqsUpTo(PointPool, MaxPoints)}

PolygonFrames == {Frame("Polygon", g) : g \in SeqsUpTo(PolygonPool, MaxPolys)}

Names == {"A", "B"}

Widths == {1, 2}

FieldArgs == {NoneList, List(<<>>), List(<<"name">>)}

PopupArgs == {NoneList, List(<<"name">>)}

\* The (tooltip_fields, tooltip_aliases) pairs passed to map_poly_label.
LabelArgs ==
    { <<NoneList, NoneList>>, <<List(<<>>), List(<<>>)>>,
      <<List(<<"name">>), List(<<"Name">>)>>, <<List(<<"name">>), NoneList>> }

Scales == {1, 10000}

\* The map handle the caller supplies: a map with its tile layer.
InitialChildren == {<<[type |-> "TileLayer"]>>}

NoCall ==
    [op |-> "none", args |-> <<>>, raiseAt |-> 0, outcome |-> "none",
     ret |-> "None"]

---------------------------------------------------------------------------
\* The mapping library's containers, as the code uses them.

FeatureGroup(name, show) ==
    [type |-> "FeatureGroup", name |-> name, show |-> show, children |-> <<>>]

\* A map that keeps one feature group per name: a group whose name is already
\* on the map takes the older group's place.
add_child_merge(map, child) ==
    IF \E i \in DOMAIN map :
            map[i].type = "FeatureGroup" /\ child.type = "FeatureGroup"
            /\ map[i].name = child.name
    THEN [i \in DOMAIN map |->
             IF map[i].type = "FeatureGroup" /\ map[i].name = child.name
             THEN child ELSE map[i]]
    ELSE Append(map, child)

\* map_obj.add_child(child): the map's child list grows at its end.
add_child(map, child) == Append(map, child)

\* layer.add_to(fg) for the feature group the builder has just attached:
\* the group is the map's last child and is updated in place.
add_to(map, layer) ==
    [map EXCEPT ![Len(map)].children = Append(@, layer)]

\* choropleth.geojson.add_child(child) for the choropleth the builder has
\* just added to its feature group.
geojson_add_child(map, child) ==
    [map EXCEPT ![Len(map)].children =
        [@ EXCEPT ![Len(@)].geojson.children = Append(@, child)]]

Choropleth(geo_data, fill_opacity, fill_color, line_weight, line_opacity, line_color, name) ==
    [type |-> "Choropleth",
     fill_opacity |-> fill_opacity, fill_color |-> fill_color,
     line_weight |-> line_weight, line_opacity |-> line_opacity,
     line_color |-> line_color, name |-> name,
     geojson |-> [data |-> geo_data.geometry, children |-> <<>>]]

GeoJsonTooltip(fields, aliases) ==
    [type |-> "GeoJsonTooltip", fields |-> fields, aliases |-> aliases]

GeoJsonPopup(fields) ==
    [type |-> "GeoJsonPopup", fields |-> fields]

\* What a call leaves behind: the map, the heap, how it ended, its value.
Result(map, heap, outcome, ret) ==
    [map |-> map, frames |-> heap, outcome |-> outcome, ret |-> ret]

---------------------------------------------------------------------------
\* Function 1: map_location.

Min(S) == CHOOSE m \in S : \A s \in S : m <= s

Max(S) == CHOOSE m \in S : \A s \in S : m >= s

\* The coordinates of all the geometries of a frame: the points themselves,
\* or the vertices of the polygons.
Vertices(gdf) ==
    IF gdf.kind = "Point"
    THEN {gdf.geometry[i] : i \in DOMAIN gdf.geometry}
    ELSE UNION {{gdf.geometry[i][j] : j \in DOMAIN gdf.geometry[i]}
                : i \in DOMAIN gdf.geometry}

\* gdf.geometry.union_all().envelope: the axis-aligned bounding rectangle
\* of all the geometries together (of a non-empty frame).
Envelope(gdf) ==
    LET V == Vertices(gdf)
    IN  [minx |-> Min({v.x : v \in V}), maxx |-> Max({v.x : v \in V}),
         miny |-> Min({v.y : v \in V}), maxy |-> Max({v.y : v \in V})]

\* A float that is a whole or a half number, as a fraction in lowest terms;
\* NaN is the fraction with denominator 0.
Half(n) ==
    IF n % 2 = 0 THEN [num |-> n \div 2, den |-> 1] ELSE [num |-> n, den |-> 2]

NaN == [num |-> 0, den |-> 0]

\* The centroid of a rectangle is the midpoint of its sides.
Centroid(box) ==
    Pt(Half(box.minx + box.maxx), Half(box.miny + box.maxy))

map_location_swapped(map, heap, gdf, raiseAt) ==
    IF heap[gdf].geometry = <<>>
    THEN IF raiseAt >= 1 THEN Result(map, heap, "raised", "None")
         ELSE Result(map, heap, "returned", <<NaN, NaN>>)
    ELSE LET centroid == Centroid(Envelope(heap[gdf]))
         IN  Result(map, heap, "returned", <<centroid.x, centroid.y>>)

\* The code checks neither the kind nor the size of gdf.  The envelope of no
\* geometry is empty and so is its centroid: reading its coordinates raises
\* or gives NaN, as the geometry library in use decides (raiseAt).
map_location(map, heap, gdf, raiseAt) ==
    IF heap[gdf].geometry = <<>>
    THEN IF raiseAt >= 1 THEN Result(map, heap, "raised", "None")
         ELSE Result(map, heap, "returned", <<NaN, NaN>>)
    ELSE LET centroid == Centroid(Envelope(heap[gdf]))
         IN  Result(map, heap, "returned", <<centroid.y, centroid.x>>)

---------------------------------------------------------------------------
\* Function 2: map_boundary.

\* A builder that adds one outline layer per polygon.
map_boundary_per_feature(map, heap, geo_data, fg_name, lw, raiseAt) ==
    LET feature_group == FeatureGroup(fg_name, "default")
        m1 == add_child(map, feature_group)
        layers == [i \in DOMAIN heap[geo_data].geometry |->
                     Choropleth([heap[geo_data] EXCEPT
                                    !.geometry = <<heap[geo_data].geometry[i]>>],
                                0, "None", lw, "default", "default",
                                "default")]
    IN  IF raiseAt = 1
        THEN Result(m1, heap, "raised", "None")
        ELSE Result([m1 EXCEPT ![Len(m1)].children = layers], heap,
                    "returned", "None")

map_boundary(map, heap, geo_data, fg_name, lw, raiseAt) ==
    LET feature_group == FeatureGroup(fg_name, "default")
        m1 == add_child(map, feature_group)
        choropleth == Choropleth(heap[geo_data], 0, "None", lw, "default",
                                 "default", "default")
    IN  IF raiseAt = 1
        THEN Result(m1, heap, "raised", "None")
        ELSE Result(add_to(m1, choropleth), heap, "returned", "None")

---------------------------------------------------------------------------
\* Function 3: map_poly_label.

\* folium.features.GeoJson(data=..., style_function=...) and folium.GeoJson:
\* a style function is recorded by the style it returns for every feature.
GeoJson(data, style, tooltip, popup, marker, name, show) ==
    [type |-> "GeoJson", data |-> data, style |-> style, tooltip |-> tooltip,
     popup |-> popup, marker |-> marker, name |-> name, show |-> show]

\* The tooltip constructor rejects an alias list whose length differs from
\* the field list's.
TooltipRaises(fields, aliases) == Len(fields) # Len(aliases)

\* The decoration of the interaction layer, from the field and alias lists.
label_tooltip_suppressed(fields, aliases) ==
    IF fields = <<>> THEN NoneObject ELSE GeoJsonTooltip(fields, aliases)

label_tooltip(fields, aliases) == GeoJsonTooltip(fields, aliases)

\* The style the outline's style function returns.
clust_style_fixed(lc, lw) == [color |-> "black", weight |-> 1]

clust_style(lc, lw) == [color |-> lc, weight |-> lw]

map_poly_label(map, heap, geo_data, fg_name, lc, lw, tooltip_fields, tooltip_aliases, raiseAt) ==
    LET feature_group == FeatureGroup(fg_name, "default")
        m1 == add_child(map, feature_group)
        clust == Choropleth(heap[geo_data], 0, "None", "default", 0,
                            "default", "default")
        m2 == add_to(m1, clust)
        m3 == geojson_add_child(m2,
                  GeoJson(clust.geojson.data, clust_style(lc, lw), NoneObject,
                          NoneObject, NoneObject, "default", "default"))
        fields == IF Truthy(tooltip_fields) THEN tooltip_fields.items ELSE <<>>
        aliases == IF Truthy(tooltip_aliases) THEN tooltip_aliases.items
                   ELSE <<>>
        m4 == add_to(m3,
                  GeoJson(heap[geo_data].geometry,
                          [color |-> "transparent", fillColor |-> "transparent"],
                          label_tooltip(fields, aliases), NoneObject,
                          NoneObject, "default", "default"))
    IN  IF raiseAt = 1 THEN Result(m1, heap, "raised", "None")
        ELSE IF raiseAt = 2 THEN Result(m2, heap, "raised", "None")
        ELSE IF raiseAt = 3 \/ raiseAt = 4 \/ TooltipRaises(fields, aliases)
             THEN Result(m3, heap, "raised", "None")
        ELSE Result(m4, heap, "returned", "None")

---------------------------------------------------------------------------
\* Function 5: map_point_label.

Circle(location, radius, color, fill, fill_color, opacity, stroke, weight, fill_opacity) ==
    [type |-> "Circle", location |-> location, radius |-> radius,
     color |-> color, fill |-> fill, fill_color |-> fill_color,
     opacity |-> opacity, stroke |-> stroke, weight |-> weight,
     fill_opacity |-> fill_opacity]

map_point_label(map, heap, geo_data, name, r, fc, fo, ec, lw, fields, show, raiseAt) ==
    LET geojson_layer ==
            GeoJson(heap[geo_data].geometry, "default",
                    GeoJsonTooltip(fields, "None"), GeoJsonPopup(fields),
                    Circle("default", r, ec, "default", fc, "default",
                           "default", lw, fo),
                    name, show)
    IN  IF raiseAt \in 1..4
        THEN Result(map, heap, "raised", "None")
        ELSE Result(add_child(map, geojson_layer), heap, "returned",
                    geojson_layer)

---------------------------------------------------------------------------
\* Function 6: heatmap_from_points.

\* The fixed gradient of the heat layer, keyed by intensity threshold.
Gradient ==
    [t \in {"0.3", "0.6", "0.8", "0.9", "1"} |->
        CASE t = "0.3" -> "white" [] t = "0.6" -> "yellow"
          [] t = "0.8" -> "orange" [] t = "0.9" -> "red"
          [] OTHER -> "magenta"]

HeatMap(data, radius, blur, gradient, overlay) ==
    [type |-> "HeatMap", data |-> data, radius |-> radius, blur |-> blur,
     gradient |-> gradient, overlay |-> overlay]

\* point.y and point.x exist for point geometries only.
HasXY(gdf) == gdf.kind = "Point" \/ Len(gdf.geometry) = 0

heat_data_xy(gdf) ==
    [i \in DOMAIN gdf.geometry |-> <<gdf.geometry[i].x, gdf.geometry[i].y>>]

heat_data(gdf) ==
    [i \in DOMAIN gdf.geometry |-> <<gdf.geometry[i].y, gdf.geometry[i].x>>]

heatmap_from_points_late(map, heap, geo_data, fg_name, r, b, raiseAt) ==
    LET fg == FeatureGroup(fg_name, FALSE)
        filled == [fg EXCEPT !.children =
                      <<HeatMap(heat_data(heap[geo_data]), r, b, Gradient,
                                TRUE)>>]
    IN  IF ~HasXY(heap[geo_data]) \/ raiseAt = 1
        THEN Result(map, heap, "raised", "None")
        ELSE Result(add_child(map, filled), heap, "returned", filled)

heatmap_from_points(map, heap, geo_data, fg_name, r, b, raiseAt) ==
    LET fg == FeatureGroup(fg_name, FALSE)
        m1 == add_child(map, fg)
        m2 == add_to(m1, HeatMap(heat_data(heap[geo_data]), r, b, Gradient,
                                 TRUE))
    IN  IF ~HasXY(heap[geo_data]) \/ raiseAt = 1
        THEN Result(m1, heap, "raised", "None")
        ELSE Result(m2, heap, "returned", m2[Len(m2)])

---------------------------------------------------------------------------
\* Function 7: map_boundary_tooltip.

\* Whether the popup of map_boundary_tooltip is attached.
popup_wanted_nested(tooltip_fields, popup_fields) ==
    Truthy(tooltip_fields) /\ Truthy(popup_fields)

popup_wanted(tooltip_fields, popup_fields) == Truthy(popup_fields)

map_boundary_tooltip(map, heap, geo_data, fg_name, show, tooltip_fields, popup_fields, fo, fc, lw, lc, name, raiseAt) ==
    LET fg == FeatureGroup(fg_name, show)
        m1 == add_child(map, fg)
        choropleth == Choropleth(heap[geo_data], fo, fc, lw, "default", lc,
                                 name)
        m2 == add_to(m1, choropleth)
        \* the library constructor calls made after the choropleth's
        tooltipCall == IF Truthy(tooltip_fields) THEN 2 ELSE 0
        popupCall == IF ~popup_wanted(tooltip_fields, popup_fields) THEN 0
                     ELSE IF Truthy(tooltip_fields) THEN 3 ELSE 2
        m3 == IF Truthy(tooltip_fields)
              THEN geojson_add_child(m2,
                       GeoJsonTooltip(tooltip_fields.items, "None"))
              ELSE m2
        m4 == IF popup_wanted(tooltip_fields, popup_fields)
              THEN geojson_add_child(m3, GeoJsonPopup(popup_fields.items))
              ELSE m3
    IN  IF raiseAt = 1 THEN Result(m1, heap, "raised", "None")
        ELSE IF raiseAt # 0 /\ raiseAt = tooltipCall
             THEN Result(m2, heap, "raised", "None")
        ELSE IF raiseAt # 0 /\ raiseAt = popupCall
             THEN Result(m3, heap, "raised", "None")
        ELSE Result(m4, heap, "returned", "None")

---------------------------------------------------------------------------
\* Function 8: map_graduated_circles.

\* A copy that hands back the caller's own frame object.
copy_alias(heap, id) == [heap |-> heap, id |-> id]

\* gdf_points.copy(): a new frame object holding the same records.
copy(heap, id) ==
    LET new == Max(DOMAIN heap) + 1
    IN  [heap |-> (new :> heap[id]) @@ heap, id |-> new]

\* gdf[col] = values: the frame object gains (or replaces) a column.
set_column(heap, id, col, values) ==
    [heap EXCEPT ![id].columns = (col :> values) @@ @]

geometry_y(gdf) == [i \in DOMAIN gdf.geometry |-> gdf.geometry[i].y]

geometry_x(gdf) == [i \in DOMAIN gdf.geometry |-> gdf.geometry[i].x]

\* The order of the group keys: by latitude, then by longitude.
KeyLess(a, b) == a[1] < b[1] \/ (a[1] = b[1] /\ a[2] < b[2])

RECURSIVE SortKeys(_)
SortKeys(S) ==
    IF S = {} THEN <<>>
    ELSE LET k == CHOOSE a \in S : \A b \in S \ {a} : KeyLess(a, b)
         IN  <<k>> \o SortKeys(S \ {k})

\* gdf.groupby(['latitude', 'longitude']).size().reset_index(name='count'):
\* one row per distinct key, in key order, with the number of its records.
groupby_size(gdf) ==
    LET lat == gdf.columns["latitude"]
        lon == gdf.columns["longitude"]
        keys == SortKeys({<<lat[i], lon[i]>> : i \in DOMAIN lat})
    IN  [g \in DOMAIN keys |->
            [latitude |-> keys[g][1], longitude |-> keys[g][2],
             count |-> Cardinality({i \in DOMAIN lat :
                                      <<lat[i], lon[i]>> = keys[g]})]]

\* A circle whose radius ignores the count.
row_circle_flat(row, radius_scale, color, fill, fill_color, opacity, stroke, weight) ==
    Circle(<<row.latitude, row.longitude>>, radius_scale, color,
           fill, fill_color, opacity, stroke, weight, "default")

\* The circle of one row of the grouped table.
row_circle(row, radius_scale, color, fill, fill_color, opacity, stroke, weight) ==
    Circle(<<row.latitude, row.longitude>>, row.count * radius_scale, color,
           fill, fill_color, opacity, stroke, weight, "default")

RECURSIVE add_circles(_, _, _)
\* The loop over the grouped rows: each circle is added to the group as it is
\* built; the library call numbered raiseAt raises and ends the loop.
add_circles(map, circles, raiseAt) ==
    IF circles = <<>> THEN [map |-> map, outcome |-> "returned"]
    ELSE IF raiseAt = 1 THEN [map |-> map, outcome |-> "raised"]
    ELSE add_circles(add_to(map, Head(circles)), Tail(circles),
                     IF raiseAt = 0 THEN 0 ELSE raiseAt - 1)

map_graduated_circles(map, heap, gdf_points, radius_scale, color, show, fill, fill_color, opacity, stroke, weight, fg_name, raiseAt) ==
    LET c == copy(heap, gdf_points)
    IN  IF ~HasXY(heap[gdf_points])
        THEN Result(map, c.heap, "raised", "None")
        ELSE
        LET h1 == set_column(c.heap, c.id, "latitude", geometry_y(c.heap[c.id]))
            h2 == set_column(h1, c.id, "longitude", geometry_x(h1[c.id]))
            grouped == groupby_size(h2[c.id])
            fg == FeatureGroup(fg_name, show)
            m1 == add_child(map, fg)
            circles == [g \in DOMAIN grouped |->
                          row_circle(grouped[g], radius_scale, color, fill,
                                     fill_color, opacity, stroke, weight)]
            done == add_circles(m1, circles, raiseAt)
        IN  Result(done.map, h2, done.outcome, "None")

---------------------------------------------------------------------------
\* One action per operation.  A call runs to completion; the frames local to
\* it are dropped when it ends.  raiseAt numbers the library constructor call
\* (after the feature group's) that raises, 0 when none does.

Call(op, args, raiseAt, r) ==
    /\ ncalls < MaxCalls
    /\ children' = r.map
    /\ frames' = [id \in CallerIds |-> r.frames[id]]
    /\ last' = [op |-> op, args |-> args, raiseAt |-> raiseAt,
                outcome |-> r.outcome, ret |-> r.ret]
    /\ ncalls' = ncalls + 1

MapLocation ==
    \E gdf \in CallerIds, raiseAt \in 0..MaxRaise :
        Call("map_location", [gdf |-> gdf], raiseAt,
             map_location(children, frames, gdf, raiseAt))

MapBoundary ==
    \E gdf \in CallerIds, fg_name \in Names, lw \in Widths,
       raiseAt \in 0..MaxRaise :
        Call("map_boundary",
             [geo_data |-> gdf, fg_name |-> fg_name, lw |-> lw], raiseAt,
             map_boundary(children, frames, gdf, fg_name, lw, raiseAt))

MapPolyLabel ==
    \E gdf \in CallerIds, label \in LabelArgs, raiseAt \in 0..MaxRaise :
        Call("map_poly_label",
             [geo_data |-> gdf, fg_name |-> "Feature Group", lc |-> "red",
              lw |-> 3, tooltip_fields |-> label[1],
              tooltip_aliases |-> label[2]], raiseAt,
             map_poly_label(children, frames, gdf, "Feature Group", "red", 3,
                            label[1], label[2], raiseAt))

MapPointLabel ==
    \E gdf \in CallerIds, raiseAt \in 0..MaxRaise :
        Call("map_point_label",
             [geo_data |-> gdf, name |-> "Offences"], raiseAt,
             map_point_label(children, frames, gdf, "Offences", 6, "blue", 1,
                             "blue", 1, <<"name">>, FALSE, raiseAt))

HeatmapFromPoints ==
    \E gdf \in CallerIds, fg_name \in Names, raiseAt \in 0..MaxRaise :
        Call("heatmap_from_points",
             [geo_data |-> gdf, fg_name |-> fg_name], raiseAt,
             heatmap_from_points(children, frames, gdf, fg_name, 15, 10,
                                 raiseAt))

MapBoundaryTooltip ==
    \E gdf \in CallerIds, tooltip_fields \in FieldArgs,
       popup_fields \in PopupArgs, raiseAt \in 0..MaxRaise :
        Call("map_boundary_tooltip",
             [geo_data |-> gdf, fg_name |-> "Boundary_with_tooltip",
              tooltip_fields |-> tooltip_fields,
              popup_fields |-> popup_fields], raiseAt,
             map_boundary_tooltip(children, frames, gdf,
                                  "Boundary_with_tooltip", FALSE,
                                  tooltip_fields, popup_fields, 0, "None", 2,
                                  "black", "Boundary", raiseAt))

MapGraduatedCircles ==
    \E gdf \in CallerIds, radius_scale \in Scales,
       raiseAt \in 0..MaxRaise :
        Call("map_graduated_circles",
             [gdf_points |-> gdf, fg_name |-> "Graduated_Circles",
              radius_scale |-> radius_scale], raiseAt,
             map_graduated_circles(children, frames, gdf, radius_scale,
                                   "#17cbef", FALSE, TRUE, "#17cbef", "0.6",
                                   TRUE, 1, "Graduated_Circles", raiseAt))

Init ==
    /\ children \in InitialChildren
    /\ frames \in [CallerIds -> PointFrames \cup PolygonFrames]
    /\ last = NoCall
    /\ ncalls = 0

Next ==
    \/ MapLocation
    \/ MapBoundary
    \/ MapPolyLabel
    \/ MapPointLabel
    \/ HeatmapFromPoints
    \/ MapBoundaryTooltip
    \/ MapGraduatedCircles

Spec == Init /\ [][Next]_vars

---------------------------------------------------------------------------
\* Vocabulary of the properties.

Returned(op) == last.op = op /\ last.outcome = "returned"

Raised(op) == last.op = op /\ last.outcome = "raised"

LastChild == children[Len(children)]

Range(f) == {f[i] : i \in DOMAIN f}

\* The builders that wrap their layers in a feature group.
GroupBuilders ==
    {"map_boundary", "map_poly_label", "heatmap_from_points",
     "map_boundary_tooltip", "map_graduated_circles"}

Builders == GroupBuilders \cup {"map_point_label"}

Rectangle0022 == <<Pt(0, 0), Pt(2, 0), Pt(2, 2), Pt(0, 2)>>

---------------------------------------------------------------------------
\* C1: a returned map_graduated_circles call leaves a feature group holding
\* exactly one circle per distinct (latitude, longitude) of the input,
\* centred there, of radius (number of input points at that pair) times
\* radius_scale; compared as a set.  On an empty collection the call cannot
\* fail and leaves a group with no circle.
C1_GraduatedCircles ==
    last.op = "map_graduated_circles" =>
        LET pts == frames[last.args.gdf_points].geometry
            scale == last.args.radius_scale
            want == {[location |-> <<p.y, p.x>>,
                      radius |-> Cardinality({i \in DOMAIN pts : pts[i] = p})
                                 * scale] : p \in Range(pts)}
        IN  /\ (pts = <<>> => last.outcome = "returned")
            /\ last.outcome = "returned" =>
                LET fg == LastChild
                    got == {[location |-> c.location, radius |-> c.radius]
                            : c \in Range(fg.children)}
                IN  /\ fg.type = "FeatureGroup"
                    /\ \A c \in Range(fg.children) : c.type = "Circle"
                    /\ got = want
                    /\ Len(fg.children) = Cardinality(Range(pts))

C1_Witness ==
    /\ Returned("map_graduated_circles")
    /\ frames[last.args.gdf_points].geometry = <<Pt(1, 1), Pt(1, 1), Pt(2, 1)>>
    /\ Len(LastChild.children) = 2

\* C2: after a returned map_boundary_tooltip call the polygon layer carries
\* a tooltip exactly when tooltip fields were given and a popup exactly when
\* popup fields were given (given: a list naming at least one field), each
\* decided without regard to the other.
C2_TooltipPopupIndependent ==
    Returned("map_boundary_tooltip") =>
        LET kids == LastChild.children[1].geojson.children
            tip == Truthy(last.args.tooltip_fields)
            pop == Truthy(last.args.popup_fields)
        IN  /\ Len(LastChild.children) = 1
            /\ (\E i \in DOMAIN kids : kids[i].type = "GeoJsonTooltip") <=> tip
            /\ (\E i \in DOMAIN kids : kids[i].type = "GeoJsonPopup") <=> pop
            /\ Len(kids) = (IF tip THEN 1 ELSE 0) + (IF pop THEN 1 ELSE 0)
            /\ \A i \in DOMAIN kids :
                  /\ kids[i].type = "GeoJsonTooltip" =>
                        kids[i].fields = last.args.tooltip_fields.items
                  /\ kids[i].type = "GeoJsonPopup" =>
                        kids[i].fields = last.args.popup_fields.items

C2_Witness ==
    /\ Returned("map_boundary_tooltip")
    /\ ~Truthy(last.args.tooltip_fields)
    /\ Truthy(last.args.popup_fields)
    /\ Len(LastChild.children[1].geojson.children) = 1

\* C3: heatmap_from_points builds heat data with one entry per input point,
\* entry i being (latitude, longitude) = (y, x) of point i, in input order;
\* on point input (the empty collection included) the call fails only if
\* the library does.
C3_HeatData ==
    last.op = "heatmap_from_points" =>
        LET gdf == frames[last.args.geo_data]
            pts == gdf.geometry
        IN  /\ (HasXY(gdf) /\ last.raiseAt = 0) => last.outcome = "returned"
            /\ last.outcome = "returned" =>
                LET heat == LastChild.children[1]
                IN  /\ heat.type = "HeatMap"
                    /\ Len(heat.data) = Len(pts)
                    /\ \A i \in DOMAIN pts :
                          heat.data[i] = <<pts[i].y, pts[i].x>>

C3_Witness ==
    /\ Returned("heatmap_from_points")
    /\ frames[last.args.geo_data].geometry = <<Pt(2, 1), Pt(1, 1), Pt(2, 1)>>
    /\ Len(LastChild.children[1].data) = 3

\* C4: no call changes the records or the columns of the caller's frame.
C4_CallerFrameUntouched == [][frames' = frames]_vars

C4_Witness ==
    /\ Returned("map_graduated_circles")
    /\ Len(frames[last.args.gdf_points].geometry) > 0
    /\ DOMAIN frames[last.args.gdf_points].columns = {"name"}

\* C5: every call leaves the children the map already had in place and in
\* order, and adds at most one child at the end: exactly one when a builder
\* returns, none for map_location.
C5_ChildrenOnlyAppended ==
    [][/\ Len(children') >= Len(children)
       /\ Len(children') <= Len(children) + 1
       /\ SubSeq(children', 1, Len(children)) = children
       /\ (last'.op \in Builders /\ last'.outcome = "returned")
             => Len(children') = Len(children) + 1
       /\ last'.op = "map_location" => children' = children]_vars

C5_Witness ==
    /\ ncalls = 2
    /\ last.outcome = "returned"
    /\ Len(children) >= 3
    /\ children[Len(children) - 1].type = "FeatureGroup"
    /\ LastChild.type = "FeatureGroup"
    /\ children[Len(children) - 1].name = LastChild.name

\* C6: a returned map_boundary call leaves one feature group of the given
\* name holding exactly one layer, whatever the number of polygons: an
\* outline with fill opacity 0, no fill colour and the given line width,
\* carrying no tooltip and no popup.
C6_BoundaryOneLayer ==
    Returned("map_boundary") =>
        /\ LastChild.type = "FeatureGroup"
        /\ LastChild.name = last.args.fg_name
        /\ Len(LastChild.children) = 1
        /\ LET layer == LastChild.children[1]
           IN  /\ layer.type = "Choropleth"
               /\ layer.fill_opacity = 0
               /\ layer.fill_color = "None"
               /\ layer.line_weight = last.args.lw
               /\ layer.geojson.data = frames[last.args.geo_data].geometry
               /\ layer.geojson.children = <<>>

C6_Witness ==
    /\ Returned("map_boundary")
    /\ frames[last.args.geo_data].kind = "Polygon"
    /\ Len(frames[last.args.geo_data].geometry) = 2
    /\ Len(LastChild.children) = 1

\* C7: a returned map_poly_label call made with no tooltip fields and no
\* aliases leaves an interaction layer that carries a tooltip whose field
\* list and alias list are empty.
C7_EmptyTooltipKept ==
    ( /\ Returned("map_poly_label")
      /\ ~Truthy(last.args.tooltip_fields)
      /\ ~Truthy(last.args.tooltip_aliases) ) =>
        LET layer == LastChild.children[Len(LastChild.children)]
        IN  /\ layer.type = "GeoJson"
            /\ layer.tooltip.type # "None"
            /\ layer.tooltip = [type |-> "GeoJsonTooltip", fields |-> <<>>,
                                aliases |-> <<>>]

C7_Witness ==
    /\ Returned("map_poly_label")
    /\ last.args.tooltip_fields = NoneList
    /\ last.args.tooltip_aliases = NoneList
    /\ Len(LastChild.children) = 2

\* C8: a returned map_poly_label call leaves one feature group holding two
\* layers and no other: a polygon layer of fill opacity 0 drawn with the
\* given line colour and width, then a transparent polygon layer carrying
\* the tooltip with the requested fields and aliases.
C8_TwoStackedLayers ==
    Returned("map_poly_label") =>
        /\ LastChild.type = "FeatureGroup"
        /\ LastChild.name = last.args.fg_name
        /\ Len(LastChild.children) = 2
        /\ LET outline == LastChild.children[1]
               hover == LastChild.children[2]
               given(v) == IF Truthy(v) THEN v.items ELSE <<>>
           IN  /\ outline.type = "Choropleth"
               /\ outline.fill_opacity = 0
               /\ Len(outline.geojson.children) = 1
               /\ outline.geojson.children[1].style =
                     [color |-> last.args.lc, weight |-> last.args.lw]
               /\ hover.type = "GeoJson"
               /\ hover.style = [color |-> "transparent",
                                 fillColor |-> "transparent"]
               /\ hover.tooltip.type = "GeoJsonTooltip"
               /\ hover.tooltip.fields = given(last.args.tooltip_fields)
               /\ hover.tooltip.aliases = given(last.args.tooltip_aliases)

C8_Witness ==
    /\ Returned("map_poly_label")
    /\ last.args.tooltip_fields = List(<<"name">>)
    /\ last.args.tooltip_aliases = List(<<"Name">>)
    /\ LastChild.children[2].tooltip.aliases = <<"Name">>

\* C9: on a non-empty collection (of polygons, and of points as well)
\* map_location returns [latitude, longitude], the midpoint of the bounding
\* envelope of all the geometries together, latitude first; the pair lies
\* within the envelope; one rectangle spanning (0,0)-(2,2) gives (1,1).
C9_EnvelopeCentre ==
    (last.op = "map_location" /\ frames[last.args.gdf].geometry # <<>>) =>
        LET gdf == frames[last.args.gdf]
            vs == IF gdf.kind = "Polygon"
                  THEN UNION {Range(gdf.geometry[i]) : i \in DOMAIN gdf.geometry}
                  ELSE Range(gdf.geometry)
            xs == {v.x : v \in vs}
            ys == {v.y : v \in vs}
            lat == last.ret[1]
            lon == last.ret[2]
        IN  /\ last.outcome = "returned"
            /\ lat.den > 0 /\ lon.den > 0
            /\ \E lo \in ys, hi \in ys :
                  /\ \A y \in ys : lo <= y /\ y <= hi
                  /\ 2 * lat.num = (lo + hi) * lat.den
                  /\ lo * lat.den <= lat.num /\ lat.num <= hi * lat.den
            /\ \E lo \in xs, hi \in xs :
                  /\ \A x \in xs : lo <= x /\ x <= hi
                  /\ 2 * lon.num = (lo + hi) * lon.den
                  /\ lo * lon.den <= lon.num /\ lon.num <= hi * lon.den
            /\ (gdf.kind = "Polygon" /\ gdf.geometry = <<Rectangle0022>>) =>
                  last.ret = <<[num |-> 1, den |-> 1], [num |-> 1, den |-> 1]>>

C9_Witness ==
    /\ Returned("map_location")
    /\ frames[last.args.gdf].kind = "Polygon"
    /\ Len(frames[last.args.gdf].geometry) = 2
    /\ frames[last.args.gdf].geometry[1] # frames[last.args.gdf].geometry[2]
    /\ last.ret = <<[num |-> 3, den |-> 1], [num |-> 3, den |-> 1]>>

\* C10: when a feature-group builder raises after its inputs were read (a
\* layer or decoration constructor of the library raises, or the heat
\* builder meets a geometry without coordinates), the map has gained the
\* new feature group, empty or partly filled, as its last child.
C10_GroupAttachedFirst ==
    [][( /\ last'.op \in GroupBuilders
         /\ last'.outcome = "raised"
         /\ ~(last'.op = "map_graduated_circles"
              /\ ~HasXY(frames[last'.args.gdf_points])) ) =>
            /\ Len(children') = Len(children) + 1
            /\ SubSeq(children', 1, Len(children)) = children
            /\ children'[Len(children')].type = "FeatureGroup"
            /\ children'[Len(children')].name = last'.args.fg_name]_vars

C10_Witness ==
    /\ Raised("map_poly_label")
    /\ LastChild.type = "FeatureGroup"
    /\ Len(LastChild.children) = 1
    /\ LastChild.children[1].type = "Choropleth"

=============================================================================
